---------------------------- MODULE Spec2Model ----------------------------
(***************************************************************************)
(* InterChat server (Express): the SSE subscriber registry and broadcast,  *)
(* the OpenPhone webhook, and the outbound send path with translation.     *)
(*                                                                         *)
(* JavaScript values are records [t, s, n]: t is the type tag, s the       *)
(* characters of a string (one-character strings) or the elements of an    *)
(* array, n the value of a number or boolean.                              *)
(***************************************************************************)
EXTENDS Integers, Sequences, FiniteSets, TLC

(* ---------------- bounds of the model ---------------- *)
NumSubs == 2
MaxBroadcasts == 2
MaxPage == 3

Subs == 1..NumSubs

(* ---------------- JavaScript values ---------------- *)
Undefined == [t |-> "undefined", s |-> <<>>, n |-> 0]
Null == [t |-> "null", s |-> <<>>, n |-> 0]
JStr(chars) == [t |-> "string", s |-> chars, n |-> 0]
JNum(k) == [t |-> "number", s |-> <<>>, n |-> k]
JBool(b) == [t |-> "boolean", s |-> <<>>, n |-> IF b THEN 1 ELSE 0]
JArr(elems) == [t |-> "array", s |-> elems, n |-> 0]
JObj == [t |-> "object", s |-> <<>>, n |-> 0]

\* ToBoolean: what  if (x)  and  !x  test
Truthy(v) ==
  \/ v.t \in {"array", "object"}
  \/ v.t = "string" /\ v.s # <<>>
  \/ v.t = "number" /\ v.n # 0
  \/ v.t = "boolean" /\ v.n = 1

Range(q) == {q[i] : i \in 1..Len(q)}

\* String.prototype.includes: needle occurs as a contiguous run of hay
IsSubstring(needle, hay) ==
  \E i \in 0..(Len(hay) - Len(needle)) :
     SubSeq(hay, i + 1, i + Len(needle)) = needle

(* ---------------- state ---------------- *)
VARIABLES
  sseClients,   \* the Set sseClients, in insertion order
  channel,      \* per subscriber: the underlying connection
  written,      \* per subscriber: the frames client.write accepted from broadcast
  closeHandled, \* per subscriber: the req 'close' listener has run
  broadcasts,   \* history: one record per invocation of broadcast
  connectedAt,  \* history: how many broadcasts had been invoked when it connected
  webhookRes,   \* the response to the last webhook
  config,       \* the process environment read at startup (lines 12-24)
  sendReq,      \* the body of the POST /api/messages request being served
  sendRes,      \* its response
  trCalls,      \* the calls it made to translation services, with their replies
  opCalls,      \* the calls it made to the messaging provider, with their replies
  translateReq, \* the body of the POST /api/translate request being served
  translateRes, \* its response
  convList,     \* the provider's reply to the GET /api/conversations being served
  convRes,      \* its response
  convCalls,    \* the last-message fetches it made, with their replies
  convDiscarded \* the discarded count it logged

sseVars == <<sseClients, channel, written, closeHandled, broadcasts, connectedAt,
             webhookRes>>

sendVars == <<sendReq, sendRes, trCalls, opCalls>>

translateVars == <<translateReq, translateRes>>

convVars == <<convList, convRes, convCalls, convDiscarded>>

vars == <<sseVars, config, sendVars, translateVars, convVars>>

NoResponse == [status |-> 0, ok |-> FALSE]

InitRegistry ==
  /\ sseClients = <<>>
  /\ channel = [s \in Subs |-> "unopened"]
  /\ written = [s \in Subs |-> <<>>]
  /\ closeHandled = [s \in Subs |-> FALSE]
  /\ broadcasts = <<>>
  /\ connectedAt = [s \in Subs |-> 0]
  /\ webhookRes = NoResponse

(* ---------------- GET /api/sse ---------------- *)
\* Set.prototype.add: appended unless present
SetAdd(q, x) == IF x \in Range(q) THEN q ELSE Append(q, x)

\* Variant: splice(indexOf(x), 1), which drops the last element when x is absent
SetDeleteSplice(q, x) ==
  IF x \in Range(q) THEN SelectSeq(q, LAMBDA y : y # x)
  ELSE SubSeq(q, 1, Len(q) - 1)

\* Set.prototype.delete: removed if present, otherwise unchanged
SetDelete(q, x) == SelectSeq(q, LAMBDA y : y # x)

\* Variant: a late subscriber is sent the last event again
SseConnectReplay(s) ==
  /\ channel[s] = "unopened"
  /\ channel' = [channel EXCEPT ![s] = "open"]
  /\ sseClients' = SetAdd(sseClients, s)
  /\ connectedAt' = [connectedAt EXCEPT ![s] = Len(broadcasts)]
  /\ written' = [written EXCEPT ![s] =
                   IF broadcasts = <<>> THEN @
                   ELSE Append(@, [id |-> Len(broadcasts), event |-> "openphone",
                                   data |-> Undefined])]
  /\ UNCHANGED <<closeHandled, broadcasts, webhookRes>>
  /\ UNCHANGED <<config, sendVars, translateVars, convVars>>

\* A new response object: writeHead, the '\n' preamble, registration
SseConnect(s) ==
  /\ channel[s] = "unopened"
  /\ channel' = [channel EXCEPT ![s] = "open"]
  /\ sseClients' = SetAdd(sseClients, s)
  /\ connectedAt' = [connectedAt EXCEPT ![s] = Len(broadcasts)]
  /\ UNCHANGED <<written, closeHandled, broadcasts, webhookRes>>
  /\ UNCHANGED <<config, sendVars, translateVars, convVars>>

\* The peer goes away (client disconnect, network drop); no handler has run yet
ConnectionCloses(s) ==
  /\ channel[s] = "open"
  /\ channel' = [channel EXCEPT ![s] = "closed"]
  /\ UNCHANGED <<sseClients, written, closeHandled, broadcasts, connectedAt,
                 webhookRes, config, sendVars, translateVars, convVars>>

\* Variant: the close listener forgets to remove the response
OnCloseKeeps(s) ==
  /\ channel[s] = "closed"
  /\ ~closeHandled[s]
  /\ closeHandled' = [closeHandled EXCEPT ![s] = TRUE]
  /\ UNCHANGED <<sseClients, channel, written, broadcasts, connectedAt, webhookRes,
                 config, sendVars, translateVars, convVars>>

\* req.on('close', () => sseClients.delete(res))
OnClose(s) ==
  /\ channel[s] = "closed"
  /\ ~closeHandled[s]
  /\ closeHandled' = [closeHandled EXCEPT ![s] = TRUE]
  /\ sseClients' = SetDelete(sseClients, s)
  /\ UNCHANGED <<channel, written, broadcasts, connectedAt, webhookRes,
                 config, sendVars, translateVars, convVars>>

(* ---------------- broadcast ---------------- *)
\* The frame  `event: ${type}\ndata: ${JSON.stringify(payload)}\n\n` ; id is the
\* ordinal of the broadcast that produced it.
Frame(id, type, payload) == [id |-> id, event |-> type, data |-> payload]

RECURSIVE BroadcastLoopAbort(_, _, _, _)
\* Variant: one try around the whole loop, so the first throw ends it
BroadcastLoopAbort(todo, st, data, throwing) ==
  IF todo = <<>> THEN st
  ELSE LET client == Head(todo)
       IN IF client \in throwing
          THEN [st EXCEPT !.clients = SetDelete(@, client)]
          ELSE BroadcastLoopAbort(Tail(todo),
                                  [st EXCEPT !.written[client] = Append(@, data)],
                                  data, throwing)

RECURSIVE BroadcastLoopNewestFirst(_, _, _, _)
\* Variant: the frame is put ahead of what the client was written before
BroadcastLoopNewestFirst(todo, st, data, throwing) ==
  IF todo = <<>> THEN st
  ELSE LET client == Head(todo)
           next == IF client \in throwing
                   THEN [st EXCEPT !.clients = SetDelete(@, client)]
                   ELSE [st EXCEPT !.written[client] = <<data>> \o @]
       IN BroadcastLoopNewestFirst(Tail(todo), next, data, throwing)

RECURSIVE BroadcastLoop(_, _, _, _)
\* for (const client of sseClients) { try { write } catch { delete } }
\* todo: the clients still to visit; st: [clients, written]
BroadcastLoop(todo, st, data, throwing) ==
  IF todo = <<>> THEN st
  ELSE LET client == Head(todo)
           next == IF client \in throwing
                   THEN [st EXCEPT !.clients = SetDelete(@, client)]
                   ELSE [st EXCEPT !.written[client] = Append(@, data)]
       IN BroadcastLoop(Tail(todo), next, data, throwing)

broadcast(type, payload, throwing) ==
  LET id == Len(broadcasts) + 1
      st == BroadcastLoop(sseClients, [clients |-> sseClients, written |-> written],
                          Frame(id, type, payload), throwing)
  IN /\ sseClients' = st.clients
     /\ written' = st.written
     /\ broadcasts' = Append(broadcasts,
                             [registered |-> Range(sseClients),
                              threw |-> throwing \cap Range(sseClients)])

(* ---------------- POST /webhooks/openphone ---------------- *)
MessageNeedle == <<"m", "e", "s", "s", "a", "g", "e">>

\* event?.type?.includes('message'): the optional chain stops at undefined and
\* null only; a string searches for the substring, an array for the element,
\* and any other value has no includes method (TypeError).
TypeIncludesMessage(type) ==
  CASE type.t \in {"undefined", "null"} -> "false"
    [] type.t = "string" -> IF IsSubstring(MessageNeedle, type.s) THEN "true" ELSE "false"
    [] type.t = "array" -> IF \E i \in 1..Len(type.s) : type.s[i] = "message"
                           THEN "true" ELSE "false"
    [] OTHER -> "throws"

\* The values the type field of a webhook body takes in the model
WebhookTypes ==
  { Undefined, Null,
    JStr(<<"m", "e", "s", "s", "a", "g", "e", ".", "r", "e", "c", "e", "i", "v", "e", "d">>),
    JStr(<<"c", "a", "l", "l", ".", "c", "o", "m", "p", "l", "e", "t", "e", "d">>),
    JStr(<<>>),
    JNum(0), JNum(5), JBool(TRUE), JObj,
    JArr(<<"message">>), JArr(<<"call">>) }

\* try { if (includes) broadcast('openphone', event); 200 {ok:true} }
\* catch { 500 {ok:false} }
WebhookOpenphone(type, throwing) ==
  LET inc == TypeIncludesMessage(type) IN
  /\ \/ /\ inc = "true"
        /\ Len(broadcasts) < MaxBroadcasts
        /\ broadcast("openphone", type, throwing)
        /\ webhookRes' = [status |-> 200, ok |-> TRUE]
     \/ /\ inc = "false"
        /\ throwing = {}
        /\ webhookRes' = [status |-> 200, ok |-> TRUE]
        /\ UNCHANGED <<sseClients, written, broadcasts>>
     \/ /\ inc = "throws"
        /\ throwing = {}
        /\ webhookRes' = [status |-> 500, ok |-> FALSE]
        /\ UNCHANGED <<sseClients, written, broadcasts>>
  /\ UNCHANGED <<channel, closeHandled, connectedAt, config, sendVars, translateVars, convVars>>

(* ---------------- configuration (lines 12-24) ---------------- *)
KeySet == JStr(<<"k">>)
Auto == JStr(<<"a", "u", "t", "o">>)

\* TRANSLATE_PROVIDER: process.env.TRANSLATE_PROVIDER || 'LIBRE'; "AZURE" stands
\* for a selector the switch does not name.
Providers == {"DEEPL", "GOOGLE", "OPENAI", "LIBRE", "AZURE"}

Configs ==
  [ TRANSLATE_PROVIDER : Providers,
    DEEPL_API_KEY : {Undefined, KeySet},
    OPENAI_API_KEY : {Undefined, KeySet},
    OPENPHONE_FROM : {Undefined, JStr(<<"+", "1", "5", "5", "5", "1", "2", "3", "4", "5", "6", "7">>)},
    OPENPHONE_USER_ID : {Undefined, JStr(<<"U", "S", "1">>)} ]

\* The environment sets nothing: every default applies
DefaultConfig ==
  [ TRANSLATE_PROVIDER |-> "LIBRE", DEEPL_API_KEY |-> Undefined,
    OPENAI_API_KEY |-> Undefined, OPENPHONE_FROM |-> Undefined,
    OPENPHONE_USER_ID |-> Undefined ]

(* ---------------- strings ---------------- *)
LowerLetters == <<"a", "b", "c", "d", "e", "f", "g", "h", "i", "j", "k", "l", "m", "n", "o", "p", "q", "r", "s", "t", "u", "v", "w", "x", "y", "z">>
UpperLetters == <<"A", "B", "C", "D", "E", "F", "G", "H", "I", "J", "K", "L", "M", "N", "O", "P", "Q", "R", "S", "T", "U", "V", "W", "X", "Y", "Z">>

UpperChar(c) ==
  IF \E i \in 1..Len(LowerLetters) : LowerLetters[i] = c
  THEN UpperLetters[CHOOSE i \in 1..Len(LowerLetters) : LowerLetters[i] = c]
  ELSE c

\* String.prototype.toUpperCase
ToUpperCase(chars) == [i \in 1..Len(chars) |-> UpperChar(chars[i])]

IsSpace(c) == c \in {" ", "\n", "\t"}

RECURSIVE TrimStart(_)
TrimStart(chars) ==
  IF chars # <<>> /\ IsSpace(Head(chars)) THEN TrimStart(Tail(chars)) ELSE chars

RECURSIVE TrimEnd(_)
TrimEnd(chars) ==
  IF chars # <<>> /\ IsSpace(chars[Len(chars)])
  THEN TrimEnd(SubSeq(chars, 1, Len(chars) - 1)) ELSE chars

\* String.prototype.trim
Trim(chars) == TrimEnd(TrimStart(chars))

\* a || b
Or(a, b) == IF Truthy(a) THEN a ELSE b

(* ---------------- replies of the translation services ---------------- *)
\* A reply body: json says whether response.json() parses it, isNull whether it
\* parses to null; the other fields are the places the back-ends read.
TrBody(json, isNull, translatedText, deeplText, content, errorMessage) ==
  [ json |-> json, isNull |-> isNull, translatedText |-> translatedText,
    deeplText |-> deeplText, content |-> content, errorMessage |-> errorMessage ]

NotJsonBody == TrBody(FALSE, FALSE, Undefined, Undefined, Undefined, "")
NullBody == TrBody(TRUE, TRUE, Undefined, Undefined, Undefined, "")
EmptyObjBody == TrBody(TRUE, FALSE, Undefined, Undefined, Undefined, "")
ErrorBody == TrBody(TRUE, FALSE, Undefined, Undefined, Undefined, "quota exceeded")

Translated == JStr(<<"O", "I">>)
TranslatedPadded == JStr(<<" ", "O", "I", "\n">>)
TranslatedBlank == JStr(<<" ", " ">>)

\* Error replies carry no translation; a 2xx reply carries anything
TrErrorBodies == {NotJsonBody, NullBody, EmptyObjBody, ErrorBody}

TrOkBodies ==
  TrErrorBodies \cup
  { TrBody(TRUE, FALSE, Translated, Undefined, Undefined, ""),
    TrBody(TRUE, FALSE, Undefined, Translated, Undefined, ""),
    TrBody(TRUE, FALSE, Undefined, Undefined, Translated, ""),
    TrBody(TRUE, FALSE, Undefined, Undefined, TranslatedPadded, ""),
    TrBody(TRUE, FALSE, Undefined, Undefined, TranslatedBlank, "") }

\* fetch rejects (net), or resolves with a status and a body
TrNetworkError == [net |-> TRUE, status |-> 0, body |-> NotJsonBody]

TrReplies ==
  {TrNetworkError}
    \cup {[net |-> FALSE, status |-> 200, body |-> b] : b \in TrOkBodies}
    \cup {[net |-> FALSE, status |-> 500, body |-> b] : b \in TrErrorBodies}

\* response.ok
ResponseOk(status) == status >= 200 /\ status <= 299

(* ---------------- translation back-ends ---------------- *)
\* What a back-end does: it throws (message) or returns (value), having made calls
Throw(message, calls) ==
  [threw |-> TRUE, value |-> Undefined, message |-> message, calls |-> calls]

Return(value, calls) ==
  [threw |-> FALSE, value |-> value, message |-> "", calls |-> calls]

TrCall(backend, text, target, source, prompt, reply) ==
  [ backend |-> backend, text |-> text, target |-> target, source |-> source,
    prompt |-> prompt, reply |-> reply ]

\* URLSearchParams turns every value into a string
FormValue(v) == IF v = Undefined THEN JStr(<<"u", "n", "d", "e", "f", "i", "n", "e", "d">>) ELSE v

\* Variant: the call is made without looking at the key
translateWithDeepLNoKeyCheck(text, targetLang, sourceLang, reply) ==
  LET call == TrCall("deepl", FormValue(text),
                     FormValue(JStr(ToUpperCase(targetLang.s))),
                     FormValue(IF sourceLang = Auto THEN Undefined
                               ELSE JStr(ToUpperCase(sourceLang.s))),
                     Undefined, reply)
  IN IF reply.net THEN Throw("fetch failed", <<call>>)
     ELSE IF ~reply.body.json THEN Throw("invalid json", <<call>>)
     ELSE IF reply.body.isNull THEN Throw("TypeError", <<call>>)
     ELSE Return(Or(reply.body.deeplText, text), <<call>>)

translateWithDeepL(text, targetLang, sourceLang, reply) ==
  IF ~Truthy(config.DEEPL_API_KEY) THEN Throw("DEEPL_API_KEY not configured", <<>>)
  ELSE IF targetLang.t # "string" \/ (sourceLang # Auto /\ sourceLang.t # "string")
  THEN Throw("TypeError", <<>>)
  ELSE
    LET call == TrCall("deepl", FormValue(text),
                       FormValue(JStr(ToUpperCase(targetLang.s))),
                       FormValue(IF sourceLang = Auto THEN Undefined
                                 ELSE JStr(ToUpperCase(sourceLang.s))),
                       Undefined, reply)
    IN IF reply.net THEN Throw("fetch failed", <<call>>)
       ELSE IF ~reply.body.json THEN Throw("invalid json", <<call>>)
       ELSE IF reply.body.isNull THEN Throw("TypeError", <<call>>)
       ELSE Return(Or(reply.body.deeplText, text), <<call>>)

translateWithLibre(text, targetLang, sourceLang, reply) ==
  LET call == TrCall("libre", text, targetLang,
                     IF sourceLang = Auto THEN Auto ELSE sourceLang,
                     Undefined, reply)
  IN IF reply.net THEN Throw("fetch failed", <<call>>)
     ELSE IF ~reply.body.json THEN Throw("invalid json", <<call>>)
     ELSE IF reply.body.isNull THEN Throw("TypeError", <<call>>)
     ELSE Return(Or(reply.body.translatedText, text), <<call>>)

translateWithGoogle(text, targetLang, sourceLang) ==
  Throw("Google Translate not implemented in this MVP", <<>>)

\* `OpenAI error: ${response.status}`
OpenAIStatusMessage(status) ==
  CASE status = 500 -> "OpenAI error: 500"
    [] OTHER -> "OpenAI error"

translateWithOpenAI(text, targetLang, prompt, reply) ==
  IF ~Truthy(config.OPENAI_API_KEY) THEN Throw("OPENAI_API_KEY not configured", <<>>)
  ELSE
    LET call == TrCall("openai", text, targetLang, Undefined, prompt, reply)
        body == reply.body
        content == IF body.isNull THEN Undefined ELSE body.content
    IN IF reply.net THEN Throw("fetch failed", <<call>>)
       ELSE IF ~body.json THEN Throw("invalid json", <<call>>)
       ELSE IF ~ResponseOk(reply.status)
       THEN Throw(IF ~body.isNull /\ body.errorMessage # "" THEN body.errorMessage
                  ELSE OpenAIStatusMessage(reply.status), <<call>>)
       ELSE IF content.t \in {"undefined", "null"} THEN Return(text, <<call>>)
       ELSE IF content.t # "string" THEN Throw("TypeError", <<call>>)
       ELSE Return(Or(JStr(Trim(content.s)), text), <<call>>)

\* Variant: the selector is not consulted, the default back-end always runs
translateTextDefaultOnly(text, targetLang, sourceLangArg, prompt, reply) ==
  LET sourceLang == IF sourceLangArg = Undefined THEN Auto ELSE sourceLangArg
      r == translateWithLibre(text, targetLang, sourceLang, reply)
  IN IF ~Truthy(text) \/ ~Truthy(targetLang) THEN Return(text, <<>>)
     ELSE IF r.threw THEN Return(text, r.calls)
     ELSE r

\* Variant: no try/catch around the dispatch
translateTextRethrow(text, targetLang, sourceLangArg, prompt, reply) ==
  LET sourceLang == IF sourceLangArg = Undefined THEN Auto ELSE sourceLangArg
  IN IF ~Truthy(text) \/ ~Truthy(targetLang) THEN Return(text, <<>>)
     ELSE CASE config.TRANSLATE_PROVIDER = "DEEPL" ->
                  translateWithDeepL(text, targetLang, sourceLang, reply)
            [] config.TRANSLATE_PROVIDER = "GOOGLE" ->
                  translateWithGoogle(text, targetLang, sourceLang)
            [] config.TRANSLATE_PROVIDER = "OPENAI" ->
                  translateWithOpenAI(text, targetLang, prompt, reply)
            [] OTHER ->
                  translateWithLibre(text, targetLang, sourceLang, reply)

\* The default parameter sourceLang = 'auto' applies to undefined only
translateText(text, targetLang, sourceLangArg, prompt, reply) ==
  LET sourceLang == IF sourceLangArg = Undefined THEN Auto ELSE sourceLangArg
      r == CASE config.TRANSLATE_PROVIDER = "DEEPL" ->
                  translateWithDeepL(text, targetLang, sourceLang, reply)
             [] config.TRANSLATE_PROVIDER = "GOOGLE" ->
                  translateWithGoogle(text, targetLang, sourceLang)
             [] config.TRANSLATE_PROVIDER = "OPENAI" ->
                  translateWithOpenAI(text, targetLang, prompt, reply)
             [] OTHER ->
                  translateWithLibre(text, targetLang, sourceLang, reply)
  IN IF ~Truthy(text) \/ ~Truthy(targetLang) THEN Return(text, <<>>)
     ELSE IF r.threw THEN Return(text, r.calls)
     ELSE r

(* ---------------- POST /api/messages ---------------- *)
\* The fixed instruction the handler passes as prompt, around targetLang
SendPrompt(targetLang) ==
  JStr(<<"Traduza para ">> \o targetLang.s
       \o <<", preserve sentido e tom, nao traduza blocos de codigo Markdown, responda somente com a traducao.">>)

\* Bodies of the messaging provider's replies: json says whether response.json()
\* parses the text, spaced whether the text has insignificant white space, val
\* names the JSON value it denotes.
OpBodies ==
  { [json |-> TRUE, spaced |-> FALSE, val |-> "message"],
    [json |-> TRUE, spaced |-> TRUE, val |-> "error"],
    [json |-> FALSE, spaced |-> FALSE, val |-> "html"] }

OpNetworkError ==
  [net |-> TRUE, status |-> 0, body |-> [json |-> FALSE, spaced |-> FALSE, val |-> ""]]

OpReplies ==
  {OpNetworkError}
    \cup {[net |-> FALSE, status |-> st, body |-> b] : st \in {202, 400, 502}, b \in OpBodies}

\* res.json(data): the value, serialised again without white space
JsonOut(val) == [json |-> TRUE, spaced |-> FALSE, val |-> val]

NoData == [json |-> FALSE, spaced |-> FALSE, val |-> ""]

SendResponse(status, error, provider, details, data) ==
  [ status |-> status, error |-> error, provider |-> provider,
    details |-> details, data |-> data ]

NoSendResponse == SendResponse(0, "", "", "", NoData)

SendBodies ==
  [ text : {Undefined, JStr(<<>>), JStr(<<"h", "i">>)},
    to : {Undefined, JStr(<<"+", "1", "5", "5", "5", "7", "6", "5", "4", "3", "2", "1">>)},
    from : {Undefined, JStr(<<"+", "1", "5", "5", "5", "0", "0", "0", "0", "0", "0", "1">>)},
    targetLang : {Undefined, JStr(<<>>), JStr(<<"p", "t">>)},
    sourceLang : {Undefined, JStr(<<"e", "n">>)},
    userId : {Undefined},
    strict : {Undefined, JBool(TRUE)} ]

NoSendBody ==
  [ text |-> Undefined, to |-> Undefined, from |-> Undefined, targetLang |-> Undefined,
    sourceLang |-> Undefined, userId |-> Undefined, strict |-> Undefined ]

\* Variant: strict is ignored, every translation goes through translateText
TranslateForSendLenient(body, trReply) ==
  IF ~Truthy(body.targetLang) THEN Return(body.text, <<>>)
  ELSE translateText(body.text, body.targetLang, body.sourceLang,
                     SendPrompt(body.targetLang), trReply)

\* Variant: targetLang is tested against undefined instead of for truthiness
TranslateForSendDefined(body, trReply) ==
  IF body.targetLang = Undefined THEN Return(body.text, <<>>)
  ELSE IF Truthy(body.strict)
  THEN translateWithOpenAI(body.text, body.targetLang, SendPrompt(body.targetLang), trReply)
  ELSE translateText(body.text, body.targetLang, body.sourceLang,
                     SendPrompt(body.targetLang), trReply)

\* Lines 286-299: the text to send, or the strict failure
TranslateForSend(body, trReply) ==
  IF ~Truthy(body.targetLang) THEN Return(body.text, <<>>)
  ELSE IF Truthy(body.strict)
  THEN translateWithOpenAI(body.text, body.targetLang, SendPrompt(body.targetLang), trReply)
  ELSE translateText(body.text, body.targetLang, body.sourceLang,
                     SendPrompt(body.targetLang), trReply)

\* Variant: the configured sender wins over the one in the body
ResolveFromConfigFirst(body) == Or(config.OPENPHONE_FROM, body.from)

\* const fromNumber = from || OPENPHONE_FROM
ResolveFrom(body) == Or(body.from, config.OPENPHONE_FROM)

\* Variant: the payload carries the request's text
SendPayloadOriginal(body, content, fromNumber) ==
  [ content |-> body.text, from |-> fromNumber, to |-> <<body.to>>,
    userId |-> IF Truthy(config.OPENPHONE_USER_ID) \/ Truthy(body.userId)
               THEN Or(body.userId, config.OPENPHONE_USER_ID) ELSE Undefined ]

\* Lines 301-309; to is a single address in the model, wrapped in an array
SendPayload(body, content, fromNumber) ==
  [ content |-> content, from |-> fromNumber, to |-> <<body.to>>,
    userId |-> IF Truthy(config.OPENPHONE_USER_ID) \/ Truthy(body.userId)
               THEN Or(body.userId, config.OPENPHONE_USER_ID) ELSE Undefined ]

\* Lines 311-322: the send, and what the caller gets for the provider's reply
ForwardReply(opReply) ==
  IF opReply.net \/ ~opReply.body.json
  THEN SendResponse(500, "Falha ao enviar mensagem", "", "", NoData)
  ELSE SendResponse(opReply.status, "", "", "", JsonOut(opReply.body.val))

\* The handler, from the request to its response
PostMessages(body, trReply, opReply) ==
  LET fromNumber == ResolveFrom(body)
      tr == TranslateForSend(body, trReply)
  IN
  /\ sendReq' = body
  /\ IF ~Truthy(body.text) \/ ~Truthy(body.to)
     THEN /\ sendRes' = SendResponse(400, "text e to sao obrigatorios", "", "", NoData)
          /\ trCalls' = <<>>
          /\ opCalls' = <<>>
     ELSE IF ~Truthy(fromNumber)
     THEN /\ sendRes' = SendResponse(400, "from ausente", "", "", NoData)
          /\ trCalls' = <<>>
          /\ opCalls' = <<>>
     ELSE IF tr.threw
     THEN /\ sendRes' = SendResponse(500, "Falha na traducao", "openai", tr.message, NoData)
          /\ trCalls' = tr.calls
          /\ opCalls' = <<>>
     ELSE /\ sendRes' = ForwardReply(opReply)
          /\ trCalls' = tr.calls
          /\ opCalls' = <<[payload |-> SendPayload(body, tr.value, fromNumber),
                          reply |-> opReply]>>
  /\ UNCHANGED <<sseVars, config, translateVars, convVars>>

\* The response has gone out: the handler's locals are dropped
SendCompleted ==
  /\ sendRes # NoSendResponse
  /\ sendReq' = NoSendBody
  /\ sendRes' = NoSendResponse
  /\ trCalls' = <<>>
  /\ opCalls' = <<>>
  /\ UNCHANGED <<sseVars, config, translateVars, convVars>>

InitSend ==
  /\ sendReq = NoSendBody
  /\ sendRes = NoSendResponse
  /\ trCalls = <<>>
  /\ opCalls = <<>>

(* ---------------- POST /api/translate ---------------- *)
TranslateResponse(status, error, provider, details, translatedText) ==
  [ status |-> status, error |-> error, provider |-> provider,
    details |-> details, translatedText |-> translatedText ]

NoTranslateResponse == TranslateResponse(0, "", "", "", Undefined)

TranslateBodies ==
  [ text : {Undefined, JStr(<<"h", "i">>)},
    targetLang : {Undefined, JStr(<<"p", "t">>)},
    prompt : {Undefined, JStr(<<"formal">>)} ]

NoTranslateBody == [text |-> Undefined, targetLang |-> Undefined, prompt |-> Undefined]

\* The handler, from the request to its response
PostTranslate(body, trReply) ==
  LET tr == translateWithOpenAI(body.text, body.targetLang, body.prompt, trReply)
  IN
  /\ translateReq' = body
  /\ IF ~Truthy(body.text) \/ ~Truthy(body.targetLang)
     THEN /\ translateRes' = TranslateResponse(400, "text e targetLang sao obrigatorios",
                                               "", "", Undefined)
          /\ trCalls' = <<>>
     ELSE IF ~Truthy(config.OPENAI_API_KEY)
     THEN /\ translateRes' = TranslateResponse(500, "OPENAI_API_KEY nao configurado",
                                               "openai", "", Undefined)
          /\ trCalls' = <<>>
     ELSE IF tr.threw
     THEN /\ translateRes' = TranslateResponse(500, "Falha na traducao", "openai",
                                               tr.message, Undefined)
          /\ trCalls' = tr.calls
     ELSE /\ translateRes' = TranslateResponse(200, "", "openai", "", tr.value)
          /\ trCalls' = tr.calls
  /\ UNCHANGED <<sseVars, config, sendReq, sendRes, opCalls, convVars>>

\* The response has gone out: the handler's locals are dropped
TranslateCompleted ==
  /\ translateRes # NoTranslateResponse
  /\ translateReq' = NoTranslateBody
  /\ translateRes' = NoTranslateResponse
  /\ trCalls' = <<>>
  /\ UNCHANGED <<sseVars, config, sendReq, sendRes, opCalls, convVars>>

InitTranslate ==
  /\ translateReq = NoTranslateBody
  /\ translateRes = NoTranslateResponse

(* ---------------- GET /api/conversations ---------------- *)
Conversation(id, participants, lastMessage) ==
  [id |-> id, participants |-> participants, lastMessage |-> lastMessage]

\* The participants field of a conversation: missing, or an array of addresses
ParticipantChoices ==
  { Undefined, JArr(<<>>), JArr(<<"+15557654321">>),
    JArr(<<"+15557654321", "+15550000002">>) }

\* The data arrays of a provider page; a conversation's id is its position
Pages ==
  UNION { { [i \in 1..n |-> Conversation(i, f[i], Undefined)] :
              f \in [1..n -> ParticipantChoices] } : n \in 0..MaxPage }

\* The provider's reply to the list call: fetch rejects (net), or a status with a
\* body that does not parse (notjson), parses to null, is an object without a
\* data array (nodata), or is a page
ListReply(net, status, kind, page) ==
  [net |-> net, status |-> status, kind |-> kind, page |-> page]

NoListReply == ListReply(FALSE, 0, "none", <<>>)

ListReplies ==
  {ListReply(TRUE, 0, "notjson", <<>>)}
    \cup {ListReply(FALSE, st, k, <<>>) : st \in {200, 401}, k \in {"notjson", "null", "nodata"}}
    \cup {ListReply(FALSE, st, "page", p) : st \in {200, 401}, p \in Pages}

\* The provider's reply to a last-message call: fetch rejects (net), or a status
\* with a body that does not parse, parses to null, has an empty data array, or
\* has messages
MsgReply(net, status, kind) == [net |-> net, status |-> status, kind |-> kind]

MsgReplies ==
  {MsgReply(TRUE, 0, "notjson"), MsgReply(FALSE, 500, "notjson")}
    \cup {MsgReply(FALSE, 200, k) : k \in {"notjson", "null", "empty", "messages"}}

\* messagesData.data[0]
FirstMessage == JStr(<<"last">>)

\* Variant: conversations without any participant are kept too
IsSoloAtMostOne(c) == c.participants.t = "array" /\ Len(c.participants.s) <= 1

\* Array.isArray(c.participants) && c.participants.length === 1
IsSolo(c) == c.participants.t = "array" /\ Len(c.participants.s) = 1

FilterSolo(convs) == SelectSeq(convs, IsSolo)

\* The fetch or the parsing of its body throws inside the try of lines 185-222
MsgFetchThrows(reply) ==
  \/ reply.net
  \/ ResponseOk(reply.status) /\ reply.kind \in {"notjson", "null"}

\* Lines 185-222 for one conversation: lastMessage is set only for a 2xx reply
\* with a non-empty data array
AttachLastMessage(conv, reply) ==
  IF ~MsgFetchThrows(reply) /\ ResponseOk(reply.status) /\ reply.kind = "messages"
  THEN [conv EXCEPT !.lastMessage = FirstMessage]
  ELSE conv

ConvCall(conv, reply) ==
  [id |-> conv.id, participants |-> conv.participants, reply |-> reply]

RECURSIVE LastMessageLoopAbort(_, _, _)
\* Variant: one try around the whole loop, so the first throw ends it
LastMessageLoopAbort(todo, replies, acc) ==
  IF todo = <<>> THEN acc
  ELSE LET conv == Head(todo)
           reply == replies[Len(acc.convs) + 1]
       IN IF MsgFetchThrows(reply)
          THEN [convs |-> acc.convs \o todo,
                calls |-> Append(acc.calls, ConvCall(conv, reply))]
          ELSE LastMessageLoopAbort(Tail(todo), replies,
                  [convs |-> Append(acc.convs, AttachLastMessage(conv, reply)),
                   calls |-> Append(acc.calls, ConvCall(conv, reply))])

RECURSIVE LastMessageLoop(_, _, _)
\* for (let conversation of data.data) { try { ... } catch { log } }
\* replies[i] answers the fetch for the i-th conversation kept
LastMessageLoop(todo, replies, acc) ==
  IF todo = <<>> THEN acc
  ELSE LET conv == Head(todo)
           reply == replies[Len(acc.convs) + 1]
       IN LastMessageLoop(Tail(todo), replies,
             [convs |-> Append(acc.convs, AttachLastMessage(conv, reply)),
              calls |-> Append(acc.calls, ConvCall(conv, reply))])

ConvResponse(status, error, hasData, data) ==
  [status |-> status, error |-> error, hasData |-> hasData, data |-> data]

NoConvResponse == ConvResponse(0, "", FALSE, <<>>)

\* The handler, from the request to its response
GetConversations(listReply, msgReplies) ==
  LET kept == FilterSolo(listReply.page)
      done == LastMessageLoop(kept, msgReplies, [convs |-> <<>>, calls |-> <<>>])
  IN
  /\ convList' = listReply
  /\ IF listReply.net \/ listReply.kind \in {"notjson", "null"}
     THEN /\ convRes' = ConvResponse(500, "Falha ao carregar conversas", FALSE, <<>>)
          /\ convCalls' = <<>>
          /\ convDiscarded' = -1
     ELSE IF listReply.kind = "nodata"
     THEN /\ convRes' = ConvResponse(listReply.status, "", FALSE, <<>>)
          /\ convCalls' = <<>>
          /\ convDiscarded' = -1
     ELSE /\ convRes' = ConvResponse(listReply.status, "", TRUE, done.convs)
          /\ convCalls' = done.calls
          /\ convDiscarded' = Len(listReply.page) - Len(kept)
  /\ UNCHANGED <<sseVars, config, sendVars, translateVars>>

\* The response has gone out: the handler's locals are dropped
ConversationsCompleted ==
  /\ convRes # NoConvResponse
  /\ convList' = NoListReply
  /\ convRes' = NoConvResponse
  /\ convCalls' = <<>>
  /\ convDiscarded' = -1
  /\ UNCHANGED <<sseVars, config, sendVars, translateVars>>

InitConversations ==
  /\ convList = NoListReply
  /\ convRes = NoConvResponse
  /\ convCalls = <<>>
  /\ convDiscarded = -1

(* ---------------- specifications ---------------- *)
\* The event fan-out: connections, closes, webhooks
Init ==
  /\ InitRegistry
  /\ InitSend
  /\ InitTranslate
  /\ InitConversations
  /\ config = DefaultConfig

Next ==
  \/ \E s \in Subs : SseConnect(s)
  \/ \E s \in Subs : ConnectionCloses(s)
  \/ \E s \in Subs : OnClose(s)
  \/ \E type \in WebhookTypes, throwing \in SUBSET Range(sseClients) :
        WebhookOpenphone(type, throwing)

Spec == Init /\ [][Next]_vars

\* The outbound send, under every configuration
InitMessages ==
  /\ InitRegistry
  /\ InitSend
  /\ InitTranslate
  /\ InitConversations
  /\ config \in Configs

\* One request at a time is followed from its arrival to its response
HandleSend ==
  /\ sendRes = NoSendResponse
  /\ translateRes = NoTranslateResponse
  /\ \E body \in SendBodies, trReply \in TrReplies, opReply \in OpReplies :
        PostMessages(body, trReply, opReply)

HandleTranslate ==
  /\ sendRes = NoSendResponse
  /\ translateRes = NoTranslateResponse
  /\ \E body \in TranslateBodies, trReply \in TrReplies : PostTranslate(body, trReply)

NextMessages ==
  \/ HandleSend
  \/ SendCompleted
  \/ HandleTranslate
  \/ TranslateCompleted

SpecMessages == InitMessages /\ [][NextMessages]_vars

\* The conversation listing
HandleConversations ==
  /\ convRes = NoConvResponse
  /\ \E listReply \in ListReplies :
        \E msgReplies \in [1..Len(FilterSolo(listReply.page)) -> MsgReplies] :
           GetConversations(listReply, msgReplies)

NextConversations ==
  \/ HandleConversations
  \/ ConversationsCompleted

SpecConversations == Init /\ [][NextConversations]_vars

(* ======================= properties: event fan-out ======================= *)
\* Subscriber s has had a write throw in some broadcast
WriteThrew(s) == \E k \in 1..Len(broadcasts) : s \in broadcasts[k].threw

\* Subscriber s was written the frame of broadcast k
Got(s, k) == \E i \in 1..Len(written[s]) : written[s][i].id = k

\* C1: every broadcast reaches exactly the subscribers registered at that moment
\* whose write did not throw, whatever the other writes did, and every
\* subscriber whose write threw is out of the registry.
ThmBroadcastDelivery ==
  \A k \in 1..Len(broadcasts) : \A s \in Subs :
     /\ Got(s, k) <=> s \in broadcasts[k].registered \ broadcasts[k].threw
     /\ s \in broadcasts[k].threw => s \notin Range(sseClients)

\* A broadcast in which one write threw and another subscriber got the frame
WitBroadcastDelivery ==
  \E k \in 1..Len(broadcasts) : \E s1, s2 \in Subs :
     /\ s1 \in broadcasts[k].threw
     /\ s2 \in broadcasts[k].registered \ broadcasts[k].threw
     /\ Got(s2, k)
     /\ s1 \notin Range(sseClients)

\* C2: a subscriber is written each broadcast at most once, only broadcasts for
\* which it was registered when they were invoked, and none invoked before it
\* connected.
ThmAtMostOnceNoReplay ==
  \A s \in Subs : \A i \in 1..Len(written[s]) :
     LET k == written[s][i].id IN
     /\ k \in 1..Len(broadcasts)
     /\ s \in broadcasts[k].registered
     /\ k > connectedAt[s]
     /\ \A j \in 1..Len(written[s]) : j # i => written[s][j].id # k

\* A subscriber that connected after the first broadcast holds the second only,
\* while an earlier subscriber holds both
WitAtMostOnceNoReplay ==
  \E s1, s2 \in Subs :
     /\ connectedAt[s1] = 0 /\ Len(written[s1]) = 2
     /\ connectedAt[s2] = 1 /\ Len(written[s2]) = 1 /\ written[s2][1].id = 2

\* C3 as stated: every registered subscriber has a live, writable channel
ClaimRegistryLive ==
  \A s \in Range(sseClients) : channel[s] = "open" /\ ~WriteThrew(s)

\* C3 as amended: every registered subscriber has connected, its close listener
\* has not run and no write to it has thrown; each is registered once.
ThmRegistryNotRemoved ==
  /\ \A s \in Range(sseClients) :
        channel[s] # "unopened" /\ ~closeHandled[s] /\ ~WriteThrew(s)
  /\ Cardinality(Range(sseClients)) = Len(sseClients)

\* One subscriber removed by its close listener, the other still registered
WitRegistryNotRemoved ==
  \E s1, s2 \in Subs :
     /\ closeHandled[s1] /\ s1 \notin Range(sseClients)
     /\ channel[s2] = "open" /\ s2 \in Range(sseClients)

\* C4 as stated: the webhook always answers 200 {ok: true}
ClaimWebhookAlwaysOk ==
  webhookRes # NoResponse => webhookRes = [status |-> 200, ok |-> TRUE]

(* ======================= properties: outbound send ======================= *)
\* A response has been given to the request in sendReq
Responded == sendRes # NoSendResponse

\* The request passes the checks of lines 277-284
ValidSend ==
  /\ Truthy(sendReq.text)
  /\ Truthy(sendReq.to)
  /\ Truthy(sendReq.from) \/ Truthy(config.OPENPHONE_FROM)

\* The response reports a translation failure
TranslationFailureReported == sendRes.status = 500 /\ sendRes.error = "Falha na traducao"

\* The reply the translation service gave is a failure: no reply at all, an
\* error status, or a body that is not a JSON object
ReplyIsFailure(reply) ==
  reply.net \/ ~ResponseOk(reply.status) \/ ~reply.body.json \/ reply.body.isNull

\* The back-end the selector names can run: its credential is there and it exists
BackendUsable ==
  CASE config.TRANSLATE_PROVIDER = "DEEPL" -> config.DEEPL_API_KEY # Undefined
    [] config.TRANSLATE_PROVIDER = "OPENAI" -> config.OPENAI_API_KEY # Undefined
    [] config.TRANSLATE_PROVIDER = "GOOGLE" -> FALSE
    [] OTHER -> TRUE

StrictFailed ==
  \/ config.OPENAI_API_KEY = Undefined
  \/ trCalls # <<>> /\ ( \/ trCalls[1].reply.net
                         \/ ~trCalls[1].reply.body.json
                         \/ ~ResponseOk(trCalls[1].reply.status) )

StrictFailureDetail ==
  IF config.OPENAI_API_KEY = Undefined THEN "OPENAI_API_KEY not configured"
  ELSE IF trCalls[1].reply.net THEN "fetch failed"
  ELSE IF ~trCalls[1].reply.body.json THEN "invalid json"
  ELSE IF trCalls[1].reply.body.errorMessage # "" THEN trCalls[1].reply.body.errorMessage
  ELSE "OpenAI error: 500"

\* C6: a strict send with a target language whose translation attempt fails is
\* answered 500 with provider "openai" and the failure's message, and no send
\* is issued to the messaging provider.
ThmStrictFailurePropagates ==
  (Responded /\ ValidSend /\ Truthy(sendReq.targetLang) /\ Truthy(sendReq.strict)
     /\ StrictFailed) =>
     /\ sendRes.status = 500
     /\ sendRes.provider = "openai"
     /\ sendRes.details = StrictFailureDetail
     /\ opCalls = <<>>
     /\ \A i \in 1..Len(trCalls) : trCalls[i].backend = "openai"

\* A strict send refused with the message of the service's error reply
WitStrictFailurePropagates ==
  /\ Responded /\ ValidSend /\ Truthy(sendReq.targetLang) /\ Truthy(sendReq.strict)
  /\ trCalls # <<>> /\ trCalls[1].reply.status = 500
  /\ sendRes.details = "quota exceeded"
  /\ opCalls = <<>>

\* C7: without a target language (absent or empty), strict or not, no
\* translation service is called, no translation failure is reported and the
\* content sent is the request's text.
ThmNoTargetLangIdentity ==
  (Responded /\ ValidSend /\ ~Truthy(sendReq.targetLang)) =>
     /\ trCalls = <<>>
     /\ ~TranslationFailureReported
     /\ Len(opCalls) = 1
     /\ opCalls[1].payload.content = sendReq.text

\* A strict send with an empty target language, sent as it came
WitNoTargetLangIdentity ==
  /\ Responded /\ ValidSend /\ Truthy(sendReq.strict)
  /\ sendReq.targetLang = JStr(<<>>)
  /\ opCalls # <<>> /\ opCalls[1].payload.content = sendReq.text
  /\ config.OPENAI_API_KEY = Undefined

\* The translation a back-end extracts from the reply it was given
ExtractedTranslation(call) ==
  CASE call.backend = "libre" -> call.reply.body.translatedText
    [] call.backend = "deepl" -> call.reply.body.deeplText
    [] OTHER -> IF call.reply.body.content.t = "string"
                THEN JStr(Trim(call.reply.body.content.s)) ELSE Undefined

\* C8: when a target language is given and the back-end called gets a 2xx reply
\* from which it extracts a non-empty translation T, the content sent is T.
ThmTranslatedContent ==
  (Responded /\ ValidSend /\ Truthy(sendReq.targetLang) /\ trCalls # <<>>
     /\ ~ReplyIsFailure(trCalls[1].reply)
     /\ Truthy(ExtractedTranslation(trCalls[1]))) =>
     /\ Len(opCalls) = 1
     /\ opCalls[1].payload.content = ExtractedTranslation(trCalls[1])

\* A non-strict send through the self-hosted back-end, sent translated
WitTranslatedContent ==
  /\ Responded /\ ValidSend /\ ~Truthy(sendReq.strict)
  /\ trCalls # <<>> /\ trCalls[1].backend = "libre"
  /\ opCalls # <<>> /\ opCalls[1].payload.content = Translated
  /\ opCalls[1].payload.content # sendReq.text

\* C9: a request without text, without to, or without a resolvable sender is
\* answered 400 and makes no upstream call; a sender in the body is the one used.
ThmValidation ==
  /\ (Responded /\ ~ValidSend) =>
        sendRes.status = 400 /\ trCalls = <<>> /\ opCalls = <<>>
  /\ (Responded /\ opCalls # <<>>) =>
        opCalls[1].payload.from = (IF Truthy(sendReq.from) THEN sendReq.from
                                   ELSE config.OPENPHONE_FROM)

\* A request with text, to and a target language but no sender anywhere
WitValidation ==
  /\ Responded /\ sendRes.status = 400
  /\ Truthy(sendReq.text) /\ Truthy(sendReq.to) /\ Truthy(sendReq.targetLang)
  /\ trCalls = <<>> /\ opCalls = <<>>

\* C10 as stated: whatever the messaging provider answers, the caller gets that
\* status and that body
ClaimVerbatimForward ==
  (Responded /\ opCalls # <<>> /\ ~opCalls[1].reply.net) =>
     /\ sendRes.status = opCalls[1].reply.status
     /\ sendRes.data.val = opCalls[1].reply.body.val

(* ======================= properties: conversation listing ======================= *)
\* A response has been given to a listing whose provider reply was a page
PageResponded == convRes # NoConvResponse /\ ~convList.net /\ convList.kind = "page"

\* The participants array has exactly one element
OneParticipant(p) == p.t = "array" /\ Len(p.s) = 1

MsgFetchFailed(reply) ==
  reply.net \/ reply.status # 200 \/ reply.kind # "messages"

\* C12: every conversation kept is fetched for and returned; one whose fetch
\* failed has no lastMessage, the others have theirs, and the page is answered
\* with the provider's status.
ThmLastMessageIsolation ==
  PageResponded =>
     LET out == convRes.data IN
     /\ convRes.status = convList.status
     /\ Len(out) = Cardinality({i \in 1..Len(convList.page) :
                                  OneParticipant(convList.page[i].participants)})
     /\ Len(convCalls) = Len(out)
     /\ \A j \in 1..Len(out) :
           /\ convCalls[j].id = out[j].id
           /\ out[j].lastMessage = (IF MsgFetchFailed(convCalls[j].reply)
                                    THEN Undefined ELSE FirstMessage)

\* The first fetch is rejected and the second conversation still gets its message
WitLastMessageIsolation ==
  /\ PageResponded
  /\ Len(convRes.data) = 2
  /\ convCalls[1].reply.net /\ convRes.data[1].lastMessage = Undefined
  /\ convRes.data[2].lastMessage = FirstMessage
  /\ convRes.status = 200

(* ======================= properties: back-end selection ======================= *)
\* The service of the back-end the selector names
SelectedBackend ==
  CASE config.TRANSLATE_PROVIDER = "DEEPL" -> "deepl"
    [] config.TRANSLATE_PROVIDER = "GOOGLE" -> "google"
    [] config.TRANSLATE_PROVIDER = "OPENAI" -> "openai"
    [] OTHER -> "libre"

\* The request served is a send, or a translate request, that attempts a translation
SendAttempt == Responded /\ ValidSend /\ Truthy(sendReq.targetLang)

TranslateAttempt ==
  /\ translateRes # NoTranslateResponse
  /\ Truthy(translateReq.text) /\ Truthy(translateReq.targetLang)

\* C13 as stated: whatever service is called is the one the selector names
ClaimSelectorChoosesBackend ==
  /\ Len(trCalls) <= 1
  /\ \A i \in 1..Len(trCalls) : trCalls[i].backend = SelectedBackend

\* C13 as amended: a non-strict send calls the selector's service, once, if that
\* back-end can run; a strict send and the translate endpoint call the OpenAI
\* service, once, if its key is set, whatever the selector.
ThmBackendDispatch ==
  /\ (SendAttempt /\ ~Truthy(sendReq.strict)) =>
        /\ Len(trCalls) = (IF BackendUsable THEN 1 ELSE 0)
        /\ \A i \in 1..Len(trCalls) : trCalls[i].backend = SelectedBackend
  /\ ((SendAttempt /\ Truthy(sendReq.strict)) \/ TranslateAttempt) =>
        /\ Len(trCalls) = (IF config.OPENAI_API_KEY # Undefined THEN 1 ELSE 0)
        /\ \A i \in 1..Len(trCalls) : trCalls[i].backend = "openai"
  /\ ~(SendAttempt \/ TranslateAttempt) => trCalls = <<>>

\* A strict send under the DEEPL selector, translated by the OpenAI service
WitBackendDispatch ==
  /\ SendAttempt /\ Truthy(sendReq.strict)
  /\ config.TRANSLATE_PROVIDER = "DEEPL"
  /\ trCalls # <<>> /\ trCalls[1].backend = "openai"
  /\ opCalls # <<>> /\ opCalls[1].payload.content = Translated

\* C14: a back-end whose credential is missing makes no call to its service; a
\* non-strict send then goes out with the original text, a strict send and the
\* translate endpoint answer 500.
ThmMissingCredentialFailsFast ==
  /\ ( SendAttempt /\ ~Truthy(sendReq.strict)
       /\ ( \/ config.TRANSLATE_PROVIDER = "DEEPL" /\ config.DEEPL_API_KEY = Undefined
            \/ config.TRANSLATE_PROVIDER = "OPENAI" /\ config.OPENAI_API_KEY = Undefined ) ) =>
        /\ trCalls = <<>>
        /\ Len(opCalls) = 1
        /\ opCalls[1].payload.content = sendReq.text
  /\ (SendAttempt /\ Truthy(sendReq.strict) /\ config.OPENAI_API_KEY = Undefined) =>
        /\ trCalls = <<>>
        /\ opCalls = <<>>
        /\ sendRes.status = 500
        /\ sendRes.details = "OPENAI_API_KEY not configured"
  /\ (TranslateAttempt /\ config.OPENAI_API_KEY = Undefined) =>
        /\ trCalls = <<>>
        /\ translateRes.status = 500
        /\ translateRes.provider = "openai"
        /\ translateRes.translatedText = Undefined

\* A non-strict send under the DEEPL selector without its key, sent untranslated
WitMissingCredentialFailsFast ==
  /\ SendAttempt /\ ~Truthy(sendReq.strict)
  /\ config.TRANSLATE_PROVIDER = "DEEPL" /\ config.DEEPL_API_KEY = Undefined
  /\ trCalls = <<>>
  /\ opCalls # <<>> /\ opCalls[1].payload.content = sendReq.text
  /\ sendRes.status = 202

\* C15 as stated: a strict send either reports a translation failure and sends
\* nothing, or sends the translation its service call yielded
ClaimStrictNeverFallsBack ==
  (SendAttempt /\ Truthy(sendReq.strict)) =>
     \/ TranslationFailureReported /\ opCalls = <<>>
     \/ /\ trCalls # <<>>
        /\ ~ReplyIsFailure(trCalls[1].reply)
        /\ Truthy(ExtractedTranslation(trCalls[1]))
        /\ Len(opCalls) = 1
        /\ opCalls[1].payload.content = ExtractedTranslation(trCalls[1])

\* C17 as stated: the DeepL request has the upper-cased target, the upper-cased
\* source when one is given, and no source field when the source is auto
ClaimDeepLRequestShape ==
  \A i \in 1..Len(trCalls) :
     (Responded /\ trCalls[i].backend = "deepl") =>
        /\ trCalls[i].target = JStr(ToUpperCase(sendReq.targetLang.s))
        /\ trCalls[i].source =
              (IF sendReq.sourceLang \in {Undefined, Auto} THEN Undefined
               ELSE JStr(ToUpperCase(sendReq.sourceLang.s)))

(* ======================= properties: subscriber lifecycle ======================= *)
\* Subscriber s has connected and is out of the registry
Removed(s) == channel[s] # "unopened" /\ s \notin Range(sseClients)

\* C16: a subscriber's connection goes unopened, open, closed and nowhere else;
\* it leaves the registry only in the step of its close listener or of a
\* broadcast in which its write threw; once out it stays out and is written
\* nothing; and the close listener of a subscriber already out leaves the
\* registry as it is.
ThmSubscriberLifecycle ==
  [][ \A s \in Subs :
        /\ channel'[s] # channel[s] =>
              <<channel[s], channel'[s]>> \in {<<"unopened", "open">>, <<"open", "closed">>}
        /\ (s \in Range(sseClients) /\ s \notin Range(sseClients')) =>
              \/ closeHandled'[s] /\ ~closeHandled[s]
              \/ /\ Len(broadcasts') = Len(broadcasts) + 1
                 /\ s \in broadcasts'[Len(broadcasts')].threw
        /\ Removed(s) => (Removed(s)' /\ written'[s] = written[s])
        /\ (Removed(s) /\ closeHandled'[s] /\ ~closeHandled[s]) =>
              sseClients' = sseClients
    ]_vars

\* A subscriber removed for a throwing write whose close listener has run too,
\* while the other is still registered
WitSubscriberLifecycle ==
  \E s1, s2 \in Subs :
     /\ WriteThrew(s1) /\ closeHandled[s1] /\ Removed(s1)
     /\ s2 \in Range(sseClients)

\* C18: what a subscriber has been written is, in the order of the broadcasts,
\* one frame for each broadcast invoked while it was registered and whose write
\* to it did not throw: no state shows a broadcast half done or two interleaved.
ThmBroadcastOrder ==
  \A s \in Subs :
     /\ \A i, j \in 1..Len(written[s]) : i < j => written[s][i].id < written[s][j].id
     /\ {written[s][i].id : i \in 1..Len(written[s])} =
           {k \in 1..Len(broadcasts) : s \in broadcasts[k].registered \ broadcasts[k].threw}

\* A subscriber holding the first and the second frame in that order, the other
\* having thrown on the second
WitBroadcastOrder ==
  \E s1, s2 \in Subs :
     /\ Len(written[s1]) = 2 /\ written[s1][1].id = 1 /\ written[s1][2].id = 2
     /\ Len(broadcasts) = 2 /\ s2 \in broadcasts[2].threw
     /\ Len(written[s2]) = 1

=============================================================================
